---- MODULE Spec2Model ----
(***************************************************************************)
(* Model of path-comment (src/src/cli.rs, src/src/comments.rs): the header *)
(* normalizer Cli::process_file and the comment style registry.            *)
(*                                                                         *)
(* Text is a sequence of one-character strings, so str::lines, join, trim  *)
(* and the path-comment regular expression are computed character by       *)
(* character, as the code computes them.                                   *)
(***************************************************************************)
EXTENDS Naturals, Integers, Sequences, FiniteSets, TLC

(***************************************************************************)
(* Bounds of the model.                                                    *)
(***************************************************************************)
MaxLines == 3

MaxRuns == 2

\* the lines of a file when the file system may fail
MaxLinesIO == 1

\* the lines of a user configuration file
MaxConfigLines == 2

\* the worker threads of the parallel walk
NumWorkers == 2

(***************************************************************************)
(* Characters and character classes.                                       *)
(***************************************************************************)
Lower == {"a", "b", "c", "d", "e", "f", "g", "h", "i", "j", "k", "l", "m",
          "n", "o", "p", "q", "r", "s", "t", "u", "v", "w", "x", "y", "z"}

Upper == {"A", "B", "C", "D", "E", "F", "G", "H", "I", "J", "K", "L", "M",
          "N", "O", "P", "Q", "R", "S", "T", "U", "V", "W", "X", "Y", "Z"}

Digit == {"0", "1", "2", "3", "4", "5", "6", "7", "8", "9"}

\* regex \w (ASCII part)
WordChar == Lower \cup Upper \cup Digit \cup {"_"}

\* regex \s and char::is_whitespace (ASCII part)
WhiteSpace == {" ", "\t", "\n", "\r"}

\* regex [A-Za-z]
Alpha == Lower \cup Upper

\* regex [\w\-\.\s]
NameChar == WordChar \cup {"-", "."} \cup WhiteSpace

\* regex (?:/|\\)
Separator == {"/", "\\"}

(***************************************************************************)
(* String functions of the standard library used by the code.              *)
(***************************************************************************)
RECURSIVE TrimStart(_)
\* str::trim_start
TrimStart(s) ==
    IF s # <<>> /\ Head(s) \in WhiteSpace THEN TrimStart(Tail(s)) ELSE s

RECURSIVE TrimEnd(_)
\* str::trim_end
TrimEnd(s) ==
    IF s # <<>> /\ s[Len(s)] \in WhiteSpace
    THEN TrimEnd(SubSeq(s, 1, Len(s) - 1))
    ELSE s

\* str::trim
Trim(s) == TrimEnd(TrimStart(s))

\* str::ends_with(c)
EndsWith(s, c) == s # <<>> /\ s[Len(s)] = c

\* str::starts_with(p)
StartsWith(s, p) == Len(p) <= Len(s) /\ SubSeq(s, 1, Len(p)) = p

RECURSIVE IndexFrom(_, _, _)
\* index of the first occurrence of c in s at or after i, 0 when there is none
IndexFrom(s, c, i) ==
    IF i > Len(s) THEN 0
    ELSE IF s[i] = c THEN i
    ELSE IndexFrom(s, c, i + 1)

\* index of the first occurrence of c in s, 0 when there is none
FirstIndex(s, c) == IndexFrom(s, c, 1)

\* the closure of str::lines: strip one "\n", then one "\r" before it
StripLineEnd(piece) ==
    IF EndsWith(piece, "\n")
    THEN LET l == SubSeq(piece, 1, Len(piece) - 1)
         IN  IF EndsWith(l, "\r") THEN SubSeq(l, 1, Len(l) - 1) ELSE l
    ELSE piece

RECURSIVE Lines(_)
\* str::lines: split_inclusive('\n'), each piece without its line ending
Lines(s) ==
    IF s = <<>> THEN <<>>
    ELSE LET i == FirstIndex(s, "\n")
         IN  IF i = 0 THEN <<s>>
             ELSE <<StripLineEnd(SubSeq(s, 1, i))>> \o Lines(SubSeq(s, i + 1, Len(s)))

RECURSIVE Join(_, _)
\* [&str]::join(sep)
Join(ls, sep) ==
    IF ls = <<>> THEN <<>>
    ELSE IF Len(ls) = 1 THEN ls[1]
    ELSE ls[1] \o sep \o Join(Tail(ls), sep)

\* str::replace(from, to) for single characters
Replace(s, from, to) == [i \in 1..Len(s) |-> IF s[i] = from THEN to ELSE s[i]]

RECURSIVE TrimStartMatches(_, _)
\* str::trim_start_matches(pat): removes pat from the front as often as it occurs
TrimStartMatches(s, pat) ==
    IF pat # <<>> /\ StartsWith(s, pat)
    THEN TrimStartMatches(SubSeq(s, Len(pat) + 1, Len(s)), pat)
    ELSE s

(***************************************************************************)
(* comments.rs: the styles, their delimiters and the path-comment regex.   *)
(***************************************************************************)
Styles == {"Slash", "SlashStar", "Hash", "Semi", "Xml", "DoubleDash", "Percent"}

\* Style::delimiters: (start, end)
delimiters(style) ==
    CASE style = "Slash"      -> << <<"/", "/", " ">>, <<>> >>
      [] style = "SlashStar"  -> << <<"/", "*", " ">>, <<" ", "*", "/">> >>
      [] style = "Hash"       -> << <<"#", " ">>, <<>> >>
      [] style = "Semi"       -> << <<";", " ">>, <<>> >>
      [] style = "Xml"        -> << <<"<", "!", "-", "-", " ">>, <<" ", "-", "-", ">">> >>
      [] style = "DoubleDash" -> << <<"-", "-", " ">>, <<>> >>
      [] style = "Percent"    -> << <<"%", " ">>, <<>> >>

\* the DELIMITERS table: one entry per style of the list it is built from
DELIMITERS == [style \in Styles |-> delimiters(style)]

\* The regex is run as a set of positions: a position p means that the first
\* p characters of s are consumed. Each operator maps the positions before a
\* sub-pattern to the positions after it.

RECURSIVE RunEnd(_, _, _)
\* the end of the longest run of characters of cls that starts after position p
RunEnd(s, p, cls) ==
    IF p < Len(s) /\ s[p + 1] \in cls THEN RunEnd(s, p + 1, cls) ELSE p

\* cls* : zero or more characters of cls
Star(s, S, cls) == UNION {p..RunEnd(s, p, cls) : p \in S}

\* cls+ : one or more characters of cls
Plus(s, S, cls) == UNION {(p + 1)..RunEnd(s, p, cls) : p \in S}

\* one character of cls
One(s, S, cls) ==
    {p + 1 : p \in {q \in S : q < Len(s) /\ s[q + 1] \in cls}}

\* the literal lit (regex::escape makes the delimiter a literal)
Lit(s, S, lit) ==
    {p + Len(lit) : p \in {q \in S : q + Len(lit) <= Len(s)
                                     /\ SubSeq(s, q + 1, q + Len(lit)) = lit}}

\* (?:/|\\|[A-Za-z]:)?
Root(s, S) ==
    S \cup One(s, S, Separator) \cup Lit(s, One(s, S, Alpha), <<":">>)

\* [\w\-\.\s]+(?:/|\\)
DirPart(s, S) == One(s, Plus(s, S, NameChar), Separator)

RECURSIVE DirParts(_, _)
\* (?:[\w\-\.\s]+(?:/|\\))+
DirParts(s, S) ==
    LET T == DirPart(s, S)
    IN  IF T = {} THEN {} ELSE T \cup DirParts(s, T)

\* (?:\.\w+)?
OptExt(s, S) == S \cup Plus(s, Lit(s, S, <<".">>), WordChar)

\* (?:/|\\|[A-Za-z]:)?(?:[\w\-\.\s]+(?:/|\\))+[\w\-\.\s]+(?:\.\w+)?
MultiSegmentPath(s, S) == OptExt(s, Plus(s, DirParts(s, Root(s, S)), NameChar))

\* [\w\-\.\s]+\.\w+
FileWithExt(s, S) == Plus(s, Lit(s, Plus(s, S, NameChar), <<".">>), WordChar)

\* the path group: multi-segment path | file name with extension
PathGroup(s, S) == MultiSegmentPath(s, S) \cup FileWithExt(s, S)

\* REGEXES[style].is_match(s):
\* ^\s*(start)\s*(path)\s*(end)\s*$ with start and end the trimmed delimiters
IsMatch(style, s) ==
    LET start == TrimEnd(delimiters(style)[1])
        end   == TrimStart(delimiters(style)[2])
        p1 == Lit(s, Star(s, {0}, WhiteSpace), start)
        p2 == PathGroup(s, Star(s, p1, WhiteSpace))
        p3 == Lit(s, Star(s, p2, WhiteSpace), end)
    IN  Len(s) \in Star(s, p3, WhiteSpace)

(***************************************************************************)
(* std::path functions used by cli.rs, on "/"-separated paths.             *)
(***************************************************************************)
\* Option<T>: None is the empty sequence, Some(x) a sequence of one element
None == <<>>

Some(x) == <<x>>

UpperSeq == <<"A", "B", "C", "D", "E", "F", "G", "H", "I", "J", "K", "L", "M",
              "N", "O", "P", "Q", "R", "S", "T", "U", "V", "W", "X", "Y", "Z">>

LowerSeq == <<"a", "b", "c", "d", "e", "f", "g", "h", "i", "j", "k", "l", "m",
              "n", "o", "p", "q", "r", "s", "t", "u", "v", "w", "x", "y", "z">>

\* str::to_lowercase (ASCII part)
ToLowercase(s) ==
    [i \in 1..Len(s) |->
        IF s[i] \in Upper
        THEN LowerSeq[CHOOSE k \in 1..26 : UpperSeq[k] = s[i]]
        ELSE s[i]]

RECURSIVE IndexBefore(_, _, _)
\* index of the last occurrence of c in s at or before i, 0 when there is none
IndexBefore(s, c, i) ==
    IF i < 1 THEN 0
    ELSE IF s[i] = c THEN i
    ELSE IndexBefore(s, c, i - 1)

\* index of the last occurrence of c in s, 0 when there is none
LastIndex(s, c) == IndexBefore(s, c, Len(s))

RECURSIVE Components(_)
\* Path::components: the normal components; empty and "." components vanish
Components(p) ==
    IF p = <<>> THEN <<>>
    ELSE LET i    == FirstIndex(p, "/")
             head == IF i = 0 THEN p ELSE SubSeq(p, 1, i - 1)
             rest == IF i = 0 THEN <<>> ELSE SubSeq(p, i + 1, Len(p))
         IN  IF head = <<>> \/ head = <<".">>
             THEN Components(rest)
             ELSE <<head>> \o Components(rest)

\* Path::has_root
HasRoot(p) == p # <<>> /\ p[1] = "/"

\* Path::file_name
FileName(p) ==
    LET cs == Components(p)
    IN  IF cs = <<>> \/ cs[Len(cs)] = <<".", ".">> THEN None ELSE Some(cs[Len(cs)])

\* Path::extension: the part of the file name after its last dot; None when
\* there is no dot or the only dot starts the name
Extension(p) ==
    LET file_name == FileName(p)
    IN  IF file_name = None THEN None
        ELSE LET name == file_name[1]
                 i    == LastIndex(name, ".")
             IN  IF i <= 1 THEN None ELSE Some(SubSeq(name, i + 1, Len(name)))

\* Path::strip_prefix(base): Ok(rest) when the components of base start those
\* of p, Err (None) otherwise
StripPrefix(p, base) ==
    LET pc == Components(p)
        bc == Components(base)
    IN  IF HasRoot(p) = HasRoot(base) /\ Len(bc) <= Len(pc) /\ SubSeq(pc, 1, Len(bc)) = bc
        THEN Some(Join(SubSeq(pc, Len(bc) + 1, Len(pc)), <<"/">>))
        ELSE None

(***************************************************************************)
(* comments.rs: the extension table read from a configuration.             *)
(***************************************************************************)
RECURSIVE TokenEnd(_, _)
\* the end of the run of non-whitespace characters that starts after position p
TokenEnd(s, p) ==
    IF p < Len(s) /\ s[p + 1] \notin WhiteSpace THEN TokenEnd(s, p + 1) ELSE p

RECURSIVE SplitWhitespace(_)
\* str::split_whitespace: the maximal runs of non-whitespace characters
SplitWhitespace(s) ==
    IF TrimStart(s) = <<>> THEN <<>>
    ELSE <<SubSeq(TrimStart(s), 1, TokenEnd(TrimStart(s), 0))>>
         \o SplitWhitespace(SubSeq(TrimStart(s), TokenEnd(TrimStart(s), 0) + 1,
                                   Len(TrimStart(s))))

\* Style::from_str
from_str(s) ==
    CASE Trim(s) = <<"/", "/">> -> Some("Slash")
      [] Trim(s) = <<"/", "*", " ", "*", "/">> -> Some("SlashStar")
      [] Trim(s) = <<"#">> -> Some("Hash")
      [] Trim(s) = <<";">> -> Some("Semi")
      [] Trim(s) = <<"<", "!", "-", "-", " ", "-", "-", ">">> -> Some("Xml")
      [] Trim(s) = <<"-", "-">> -> Some("DoubleDash")
      [] Trim(s) = <<"%">> -> Some("Percent")
      [] OTHER -> None

\* HashMap::new
EmptyTable == [e \in {} |-> "Slash"]

\* HashMap::insert: the value replaces the one the key had
Insert(table, key, value) ==
    [k \in DOMAIN table \cup {key} |-> IF k = key THEN value ELSE table[k]]

\* parse_config, lines 133-143: the entry of a line with at least two parts
parse_entry(table, parts) ==
    IF from_str(Join(Tail(parts), <<" ">>)) # None
    THEN Insert(table, ToLowercase(TrimStartMatches(parts[1], <<".">>)),
                from_str(Join(Tail(parts), <<" ">>))[1])
    ELSE table

\* parse_config, lines 125-154: one line of the configuration
parse_line(table, line) ==
    IF line = <<>> \/ line[1] = "#" THEN table
    ELSE IF Len(SplitWhitespace(line)) >= 2
    THEN parse_entry(table, SplitWhitespace(line))
    ELSE table

RECURSIVE parse_lines(_, _, _)
\* parse_config, line 125: the loop over the lines, from line k on
parse_lines(lines, k, table) ==
    IF k > Len(lines) THEN table
    ELSE parse_lines(lines, k + 1, parse_line(table, Trim(lines[k])))

\* parse_config
parse_config(content) == parse_lines(Lines(content), 1, EmptyTable)

(***************************************************************************)
(* cli.rs: the state of a Cli and of the file it processes.                *)
(***************************************************************************)
VARIABLES
    disk,              \* the file system: the content of the file at each path
    path,              \* the path handed to process_file
    args,              \* Args: strip, clean, dry_run, comment_style, config_file, extensions
    base_dir,          \* Cli::base_dir
    extension_styles,  \* Cli::extension_styles: extension -> style
    faults,            \* whether the file system may fail a read or a write
    processed_count,   \* Cli::processed_count
    skipped_count,     \* Cli::skipped_count
    hist,              \* one record per finished call of process_file
    config,            \* what reading args.config_file gave Cli::new: None or Some(text)
    resolved,          \* the last call of determine_comment_style: None or Some(record)
    pending,           \* Cli::run: the results of the walk not yet handed to a worker
    workers,           \* Cli::run: where each thread stands in its callback
    summary            \* Cli::run: the counts printed in the summary, None before

vars == <<disk, path, args, base_dir, extension_styles, faults,
          processed_count, skipped_count, hist, config, resolved,
          pending, workers, summary>>

\* the content of the file at `path`
file == disk[path]

\* an eligibility test that accepts every path with an extension
should_process_file_any_extension(p) == Extension(p) # None

\* Cli::should_process_file
should_process_file(p) ==
    LET extension == Extension(p)
    IN  IF extension # None
        THEN ToLowercase(extension[1]) \in DOMAIN extension_styles
        ELSE FALSE

\* a resolution in which the table entry of the extension wins over the override
determine_comment_style_table_first(p) ==
    IF Extension(p) # None /\ ToLowercase(Extension(p)[1]) \in DOMAIN extension_styles
    THEN Some(extension_styles[ToLowercase(Extension(p)[1])])
    ELSE args.comment_style

\* Cli::determine_comment_style
determine_comment_style(p) ==
    IF args.comment_style # None THEN args.comment_style
    ELSE LET extension == Extension(p)
         IN  IF extension # None
             THEN LET ext == ToLowercase(extension[1])
                  IN  IF ext \in DOMAIN extension_styles
                      THEN Some(extension_styles[ext])
                      ELSE None
             ELSE None

\* a relative path that keeps the separators and a leading "./" as they are
rel_path_str_as_is(p, base) ==
    LET stripped == StripPrefix(p, base)
    IN  IF stripped # None THEN stripped[1] ELSE p

\* process_file, lines 273-282: the path written in the header
rel_path_str(p, base) ==
    LET stripped == StripPrefix(p, base)
        rel      == IF stripped # None THEN stripped[1] ELSE p
    IN  TrimStartMatches(Replace(rel, "\\", "/"), <<".", "/">>)

\* a header built without the closing delimiter
first_line_no_suffix(style, p, base) ==
    DELIMITERS[style][1] \o rel_path_str(p, base)

\* process_file, line 285: the canonical header
first_line(style, p, base) ==
    DELIMITERS[style][1] \o rel_path_str(p, base) \o DELIMITERS[style][2]

\* a test that never finds the header in place
never_had_path_comment(lines, header) == FALSE

\* process_file, lines 291-293
already_had_path_comment(lines, header) ==
    lines # <<>> /\ Trim(lines[1]) = Trim(header)

\* a short-circuit that needs both flags off
ShortCircuit_both_off(strip, clean) == ~strip /\ ~clean

\* process_file, line 297: the exit taken when line 0 is the header
ShortCircuit(strip, clean) == ~strip \/ ~clean

\* a scan that never looks at line 0
path_comment_line_numbers_skip_line0(lines, style, header, strip) ==
    IF strip
    THEN {i \in 2..Len(lines) : IsMatch(style, Trim(lines[i]))}
    ELSE {}

\* process_file, lines 320-332: the (1-based) numbers of the lines to strip
path_comment_line_numbers(lines, style, header, strip) ==
    IF strip
    THEN {i \in 1..Len(lines) :
             /\ ~(i = 1 /\ already_had_path_comment(lines, header))
             /\ IsMatch(style, Trim(lines[i]))}
    ELSE {}

RECURSIVE RetainedLines(_, _, _, _, _)
\* process_file, lines 384-404: the original lines pushed after the header
RetainedLines(lines, numbers, strip, already, i) ==
    IF i > Len(lines) THEN <<>>
    ELSE LET is_path_comment_to_strip == strip /\ i \in numbers
             pushed ==
                 IF i = 1 /\ (is_path_comment_to_strip \/ already) THEN <<>>
                 ELSE IF ~is_path_comment_to_strip THEN <<lines[i]>>
                 ELSE <<>>
         IN  pushed \o RetainedLines(lines, numbers, strip, already, i + 1)

\* an assembly that starts with the header in clean mode too
final_content_lines_with_header(lines, numbers, header, strip, clean) ==
    <<header>>
    \o RetainedLines(lines, numbers, strip, already_had_path_comment(lines, header), 1)

\* an assembly that lets the header take the place of line 0 in every mode
final_content_lines_replace_line0(lines, numbers, header, strip, clean) ==
    (IF ~clean THEN <<header>> ELSE <<>>)
    \o RetainedLines(lines, numbers, strip, TRUE, 1)

\* process_file, lines 376-404
final_content_lines(lines, numbers, header, strip, clean) ==
    (IF ~clean THEN <<header>> ELSE <<>>)
    \o RetainedLines(lines, numbers, strip, already_had_path_comment(lines, header), 1)

\* process_file, lines 409-421: the trailing newline of the joined content
PreserveTrailingNewline(content, joined) ==
    IF EndsWith(content, "\n") \/ content = <<>>
    THEN IF ~EndsWith(joined, "\n") THEN joined \o <<"\n">> ELSE joined
    ELSE IF EndsWith(joined, "\n") /\ joined # <<>>
         THEN SubSeq(joined, 1, Len(joined) - 1)
         ELSE joined

\* process_file, lines 406-421
new_content(content, final) == PreserveTrailingNewline(content, Join(final, <<"\n">>))

RECURSIVE RemovedOutput(_, _, _)
\* process_file, lines 358-362: removed(line) for each line to strip, in order
RemovedOutput(lines, numbers, i) ==
    IF i > Len(lines) THEN <<>>
    ELSE (IF i \in numbers THEN << <<"removed", lines[i]>> >> ELSE <<>>)
         \o RemovedOutput(lines, numbers, i + 1)

\* process_file, lines 334-372: what is printed for the file, as
\* <<form, text>> pairs in the order printed
Visualization(lines, numbers, header, strip, clean) ==
    LET already == already_had_path_comment(lines, header)
        head == IF numbers = {}
                THEN IF already THEN << <<"no_change", header>> >>
                     ELSE IF clean THEN << <<"removed", header>> >>
                     ELSE << <<"added", header>> >>
                ELSE << <<"processed", <<>> >> >>
        added_lines_output ==
            IF numbers # {} /\ ~clean THEN << <<"added", header>> >> ELSE <<>>
        removed_lines_output ==
            IF strip THEN RemovedOutput(lines, numbers, 1) ELSE <<>>
    IN  head \o removed_lines_output \o added_lines_output

\* what one call of process_file returns and does: the exit taken, the
\* io::Result, the content left on disk, the counter increments, the output
Exit(outcome, result, content, wrote, processed, skipped, printed, assembled) ==
    [outcome |-> outcome, result |-> result, file |-> content, wrote |-> wrote,
     processed |-> processed, skipped |-> skipped, printed |-> printed,
     assembled |-> assembled]

\* an apply step that writes in a dry run too
write_back_in_dry_run(content, new, final, header, already, printed, write) ==
    LET built == Some([final_content_lines |-> final, new_content |-> new])
    IN
    IF content = new
    THEN Exit("identical", "Ok", content, FALSE, 0, 1, printed, built)
    ELSE IF write = "Ok"
    THEN Exit("written", "Ok", new, TRUE, 1, 0, printed, built)
    ELSE Exit("write_error", "Err", content, FALSE, 0, 1, printed, built)

\* an apply step that counts a dry run as skipped
write_back_dry_run_skipped(content, new, final, header, already, printed, write) ==
    LET built == Some([final_content_lines |-> final, new_content |-> new])
    IN
    IF content = new
    THEN Exit("identical", "Ok", content, FALSE, 0, 1,
              printed \o (IF already THEN << <<"no_change", header>> >> ELSE <<>>),
              built)
    ELSE IF ~args.dry_run
    THEN IF write = "Ok"
         THEN Exit("written", "Ok", new, TRUE, 1, 0, printed, built)
         ELSE Exit("write_error", "Err", content, FALSE, 0, 1, printed, built)
    ELSE Exit("dry_run", "Ok", content, FALSE, 0, 1, printed, built)

\* process_file, lines 423-451: nothing to change, or the write (or the dry
\* run) and its counter
write_back(content, new, final, header, already, printed, write) ==
    LET built == Some([final_content_lines |-> final, new_content |-> new])
    IN
    IF content = new
    THEN Exit("identical", "Ok", content, FALSE, 0, 1,
              printed \o (IF already THEN << <<"no_change", header>> >> ELSE <<>>),
              built)
    ELSE IF ~args.dry_run
    THEN IF write = "Ok"
         THEN Exit("written", "Ok", new, TRUE, 1, 0, printed, built)
         ELSE Exit("write_error", "Err", content, FALSE, 0, 1, printed, built)
    ELSE Exit("dry_run", "Ok", content, FALSE, 1, 0, printed, built)

\* process_file, lines 406-421: the content to write
join_lines(content, final, header, already, printed, write) ==
    write_back(content, new_content(content, final), final, header, already,
               printed, write)

\* process_file, lines 334-404: the output and the lines of the new content
assemble(content, lines, numbers, header, write) ==
    join_lines(content,
               final_content_lines(lines, numbers, header, args.strip, args.clean),
               header,
               already_had_path_comment(lines, header),
               Visualization(lines, numbers, header, args.strip, args.clean),
               write)

\* a scan that does not return early when the header is already in place
scan_without_exit(comment_style, content, lines, header, write) ==
    IF comment_style \notin Styles
    THEN Exit("no_regex", "Ok", content, FALSE, 0, 1, <<>>, None)
    ELSE assemble(content, lines,
                  path_comment_line_numbers(lines, comment_style, header, args.strip),
                  header, write)

\* process_file, lines 287-332: the exit on a header already in place, the
\* pattern of the style, the scan for path comments
scan(comment_style, content, lines, header, write) ==
    IF already_had_path_comment(lines, header) /\ ShortCircuit(args.strip, args.clean)
    THEN Exit("already_correct", "Ok", content, FALSE, 0, 1,
              << <<"no_change", header>> >>, None)
    ELSE IF comment_style \notin Styles
    THEN Exit("no_regex", "Ok", content, FALSE, 0, 1, <<>>, None)
    ELSE assemble(content, lines,
                  path_comment_line_numbers(lines, comment_style, header, args.strip),
                  header, write)

\* a read step that propagates undecodable content like any other read error
read_file_propagating_invalid_data(p, content, determined, read, write) ==
    IF determined = None
    THEN Exit("no_style", "Ok", content, FALSE, 0, 1, <<>>, None)
    ELSE IF determined[1] \notin DOMAIN DELIMITERS
    THEN Exit("no_delimiters", "Ok", content, FALSE, 0, 1, <<>>, None)
    ELSE IF read # "Ok"
    THEN Exit("read_error", "Err", content, FALSE, 0, 0, <<>>, None)
    ELSE scan(determined[1], content, Lines(content),
              first_line(determined[1], p, base_dir), write)

\* process_file, lines 228-285: the style and its delimiters, the read, the
\* canonical header
read_file(p, content, determined, read, write) ==
    IF determined = None
    THEN Exit("no_style", "Ok", content, FALSE, 0, 1, <<>>, None)
    ELSE IF determined[1] \notin DOMAIN DELIMITERS
    THEN Exit("no_delimiters", "Ok", content, FALSE, 0, 1, <<>>, None)
    ELSE IF read = "InvalidData"
    THEN Exit("non_utf8", "Ok", content, FALSE, 0, 1, << <<"no_change", <<>> >> >>, None)
    ELSE IF read = "Err"
    THEN Exit("read_error", "Err", content, FALSE, 0, 0, <<>>, None)
    ELSE scan(determined[1], content, Lines(content),
              first_line(determined[1], p, base_dir), write)

\* a process_file that does not ask should_process_file first
process_file_at_unchecked(p, content, read, write) ==
    read_file(p, content, determine_comment_style(p), read, write)

\* Cli::process_file, lines 221-454, on the path p whose file holds `content`.
\* `read` is what fs::read_to_string returns ("Ok", "InvalidData" or "Err") and
\* `write` what fs::write returns.
process_file_at(p, content, read, write) ==
    IF ~should_process_file(p)
    THEN Exit("ineligible", "Ok", content, FALSE, 0, 0, <<>>, None)
    ELSE read_file(p, content, determine_comment_style(p), read, write)

\* Cli::process_file on `path`
process_file_result(read, write) == process_file_at(path, file, read, write)

\* the results the file system can give
ReadResults == IF faults THEN {"Ok", "InvalidData", "Err"} ELSE {"Ok"}

WriteResults == IF faults THEN {"Ok", "Err"} ELSE {"Ok"}

\* what fs::read_to_string gave the call, None when the call returned before
\* line 261
ReadResult(outcome, read) ==
    IF outcome \in {"ineligible", "no_style", "no_delimiters"} THEN None ELSE Some(read)

\* what fs::write gave the call, None when the call did not reach line 437
WriteResult(outcome, write) ==
    IF outcome \in {"written", "write_error"} THEN Some(write) ELSE None

\* one call of process_file on `path`
process_file ==
    /\ Len(hist) < MaxRuns
    /\ \E read \in ReadResults, write \in WriteResults :
          \E r \in {process_file_result(read, write)} :
              /\ disk' = [disk EXCEPT ![path] = r.file]
              /\ processed_count' = processed_count + r.processed
              /\ skipped_count' = skipped_count + r.skipped
              /\ hist' = Append(hist, [before |-> file, after |-> r.file,
                                       outcome |-> r.outcome, result |-> r.result,
                                       wrote |-> r.wrote, printed |-> r.printed,
                                       assembled |-> r.assembled,
                                       processed |-> r.processed,
                                       skipped |-> r.skipped,
                                       read |-> ReadResult(r.outcome, read),
                                       write |-> WriteResult(r.outcome, write)])
    /\ UNCHANGED <<path, args, base_dir, extension_styles, faults, config, resolved,
                   pending, workers, summary>>

(***************************************************************************)
(* Cli::new: the extension table of a Cli.                                 *)
(***************************************************************************)
\* comments.cfg, the embedded default configuration: one extension per style
DEFAULT_CONFIG ==
    <<"j", "s", " ", "/", "/", "\n">> \o
    <<"c", "s", "s", " ", "/", "*", " ", "*", "/", "\n">> \o
    <<"p", "y", " ", "#", "\n">> \o
    <<"i", "n", "i", " ", ";", "\n">> \o
    <<"h", "t", "m", "l", " ", "<", "!", "-", "-", " ", "-", "-", ">", "\n">> \o
    <<"s", "q", "l", " ", "-", "-", "\n">> \o
    <<"t", "e", "x", " ", "%", "\n">>

\* comments::default_config
default_config == parse_config(DEFAULT_CONFIG)

\* a table that lays the user's entries over the defaults
loaded_styles_merged(a, cfg) ==
    IF a.config_file # None /\ cfg # None
    THEN [e \in DOMAIN default_config \cup DOMAIN parse_config(cfg[1]) |->
             IF e \in DOMAIN parse_config(cfg[1])
             THEN parse_config(cfg[1])[e]
             ELSE default_config[e]]
    ELSE default_config

\* Cli::new, lines 111-127: the table of the configuration file when one is
\* given and can be read, the default table otherwise
loaded_styles(a, cfg) ==
    IF a.config_file # None /\ cfg # None
    THEN parse_config(cfg[1])
    ELSE default_config

RECURSIVE SplitComma(_)
\* str::split(',')
SplitComma(s) ==
    IF FirstIndex(s, ",") = 0 THEN <<s>>
    ELSE <<SubSeq(s, 1, FirstIndex(s, ",") - 1)>>
         \o SplitComma(SubSeq(s, FirstIndex(s, ",") + 1, Len(s)))

\* Cli::new, lines 130-133
specified_extensions(extensions) ==
    {ToLowercase(Trim(SplitComma(extensions)[i])) : i \in 1..Len(SplitComma(extensions))}

\* a filter that drops the extensions asked for that the table does not have
filtered_known_only(table, specified) ==
    [ext \in specified \cap DOMAIN table |-> table[ext]]

\* Cli::new, lines 135-147: the table cut down to the extensions asked for
filtered(table, specified) ==
    [ext \in specified |-> IF ext \in DOMAIN table THEN table[ext] ELSE "Slash"]

\* Cli::new, lines 111-150: extension_styles
new_extension_styles(a, cfg) ==
    IF a.extensions # None
    THEN filtered(loaded_styles(a, cfg), specified_extensions(a.extensions[1]))
    ELSE loaded_styles(a, cfg)

(***************************************************************************)
(* The configurations and files the model starts from.                     *)
(***************************************************************************)
BaseDir == <<"/", "r">>

\* an extension table with one extension for each style
ExtOf(style) ==
    CASE style = "Slash"      -> <<"j", "s">>
      [] style = "SlashStar"  -> <<"c", "s", "s">>
      [] style = "Hash"       -> <<"p", "y">>
      [] style = "Semi"       -> <<"i", "n", "i">>
      [] style = "Xml"        -> <<"h", "t", "m", "l">>
      [] style = "DoubleDash" -> <<"s", "q", "l">>
      [] style = "Percent"    -> <<"t", "e", "x">>

ConfigTable ==
    [e \in {ExtOf(st) : st \in Styles} |-> CHOOSE st \in Styles : ExtOf(st) = e]

\* the file stems are "t", which the path pattern accepts, and "a+", which
\* it does not
PathOf(stem, style) == BaseDir \o <<"/">> \o stem \o <<".">> \o ExtOf(style)

\* every style with the first stem, the second stem with the Slash style
Paths == {PathOf(<<"t">>, st) : st \in Styles} \cup {PathOf(<<"a", "+">>, "Slash")}

\* a comment of the style around a body
Comment(style, body) == delimiters(style)[1] \o body \o delimiters(style)[2]

\* the lines files are made of: the canonical header, the header with blanks
\* around it, a comment holding another path (with "/" and with "\"), a
\* comment holding a path followed by prose, a code line, an empty line
LineTexts(style, header) ==
    { header,
      <<" ">> \o header \o <<" ">>,
      Comment(style, <<"o", "/", "a", ".", "j", "s">>),
      Comment(style, <<"o", "\\", "a", ".", "j", "s">>),
      Comment(style, <<"o", "/", "a", ".", "j", "s", " ", "-", " ", "x">>),
      <<"c", "(", ")", ";">>,
      <<>> }

\* all sequences of at most n lines
LineSeqs(texts, n) == UNION {[1..k -> texts] : k \in 0..n}

\* the files of at most n lines, with and without a final newline
ContentsUpTo(style, header, n) ==
    {Join(ls, <<"\n">>) \o nl :
        ls \in LineSeqs(LineTexts(style, header), n), nl \in {<<>>, <<"\n">>}}

\* the files of at most MaxLines lines
Contents(style, header) == ContentsUpTo(style, header, MaxLines)

Init ==
    /\ base_dir = BaseDir
    /\ extension_styles = ConfigTable
    /\ faults = FALSE
    /\ path \in Paths
    /\ args \in [strip : BOOLEAN, clean : BOOLEAN, dry_run : BOOLEAN, comment_style : {None},
                 config_file : {None}, extensions : {None}]
    /\ LET style == ConfigTable[Extension(path)[1]]
       IN  disk \in [{path} -> Contents(style, first_line(style, path, BaseDir))]
    /\ processed_count = 0
    /\ skipped_count = 0
    /\ hist = <<>>
    /\ config = None
    /\ resolved = None
    /\ pending = {}
    /\ workers = <<>>
    /\ summary = None

Next == process_file

Spec == Init /\ [][Next]_vars

\* the same, with a file system that may fail a read or a write, on files of
\* at most MaxLinesIO lines
InitIO ==
    /\ base_dir = BaseDir
    /\ extension_styles = ConfigTable
    /\ faults = TRUE
    /\ path \in Paths
    /\ args \in [strip : BOOLEAN, clean : BOOLEAN, dry_run : BOOLEAN, comment_style : {None},
                 config_file : {None}, extensions : {None}]
    /\ LET style == ConfigTable[Extension(path)[1]]
       IN  disk \in [{path} -> ContentsUpTo(style, first_line(style, path, BaseDir), MaxLinesIO)]
    /\ processed_count = 0
    /\ skipped_count = 0
    /\ hist = <<>>
    /\ config = None
    /\ resolved = None
    /\ pending = {}
    /\ workers = <<>>
    /\ summary = None

SpecIO == InitIO /\ [][Next]_vars

\* the paths process_file builds headers for: a file directly below the base
\* directory, one in a directory below it, one with a backslash in its name,
\* one outside the base directory, relative paths that start with "./", with
\* "././" and with ".\", a path with a "." component
RelPaths ==
    { <<"/", "r", "/", "t", ".", "p", "y">>,
      <<"/", "r", "/", "d", "/", "t", ".", "p", "y">>,
      <<"/", "r", "/", "d", "\\", "t", ".", "p", "y">>,
      <<"/", "q", "/", "t", ".", "p", "y">>,
      <<".", "/", "t", ".", "p", "y">>,
      <<".", "/", ".", "/", "t", ".", "p", "y">>,
      <<".", "\\", "q", "\\", "t", ".", "p", "y">>,
      <<"/", "r", "/", ".", "/", "t", ".", "p", "y">> }

\* process_file on each of these paths, on files of at most MaxLinesIO lines
InitRel ==
    /\ base_dir = BaseDir
    /\ extension_styles = ConfigTable
    /\ faults = FALSE
    /\ path \in RelPaths
    /\ args \in [strip : BOOLEAN, clean : BOOLEAN, dry_run : BOOLEAN, comment_style : {None},
                 config_file : {None}, extensions : {None}]
    /\ disk \in [{path} -> ContentsUpTo("Hash", first_line("Hash", path, BaseDir), MaxLinesIO)]
    /\ processed_count = 0
    /\ skipped_count = 0
    /\ hist = <<>>
    /\ config = None
    /\ resolved = None
    /\ pending = {}
    /\ workers = <<>>
    /\ summary = None

SpecRel == InitRel /\ [][Next]_vars

\* the names of files that were moved: a plain name, a name with a hyphen
\* and a second dot, a name with a blank, a name whose extension holds a
\* hyphen
MovedNames == {<<"t", ".", "j", "s">>, <<"t", "-", "1", ".", "x", ".", "j", "s">>, <<"a", " ", "b", ".", "j", "s">>, <<"t", ".", "c", "-", "x">>}

\* where the file was, relative to the base directory: in it, or in d
OldDirs == {<<>>, <<"d", "/">>}

\* the extension table with an entry for the extension c-x
MovedTable == ConfigTable @@ (<<"c", "-", "x">> :> "Hash")

\* the style process_file uses for the path under the table and the override
StyleFor(p, override) ==
    IF override # None THEN override[1] ELSE MovedTable[Extension(p)[1]]

\* process_file on a file that was moved to the directory n and still starts
\* with the header written at its old place, with stripping on, for every
\* style
InitMoved ==
    /\ base_dir = BaseDir
    /\ extension_styles = MovedTable
    /\ faults = FALSE
    /\ args \in [strip : {TRUE}, clean : {FALSE}, dry_run : BOOLEAN,
                 comment_style : {None} \cup {Some(st) : st \in Styles},
                 config_file : {None}, extensions : {None}]
    /\ path \in {BaseDir \o <<"/", "n", "/">> \o name : name \in MovedNames}
    /\ disk \in [{path} ->
                    {first_line(StyleFor(path, args.comment_style),
                                BaseDir \o <<"/">> \o dir
                                    \o SubSeq(path, Len(BaseDir) + 4, Len(path)),
                                BaseDir)
                         \o <<"\n", "c", "(", ")", ";", "\n">> : dir \in OldDirs}]
    /\ processed_count = 0
    /\ skipped_count = 0
    /\ hist = <<>>
    /\ config = None
    /\ resolved = None
    /\ pending = {}
    /\ workers = <<>>
    /\ summary = None

SpecMoved == InitMoved /\ [][Next]_vars

\* the lines of user configurations: an entry for an extension the defaults
\* have, the same extension in capitals with another style, a new extension,
\* a remark, an extension without a style, an unknown style, an entry with
\* blanks around its parts
ConfigLines ==
    { <<".", "p", "y", " ", "/", "/", "\n">>,
      <<"P", "Y", " ", ";", "\n">>,
      <<"z", "z", " ", "#", "\n">>,
      <<"#", " ", "p", "y", " ", "%", "\n">>,
      <<"p", "y", "\n">>,
      <<"p", "y", " ", "?", "?", "\n">>,
      <<" ", ".", "c", "s", "s", " ", " ", "/", "*", " ", " ", " ", "*", "/", " ", "\n">> }

RECURSIVE Concat(_)
\* the lines one after the other
Concat(ls) == IF ls = <<>> THEN <<>> ELSE Head(ls) \o Concat(Tail(ls))

\* the configuration files of at most MaxConfigLines lines
Configs == {Concat(ls) : ls \in LineSeqs(ConfigLines, MaxConfigLines)}

\* the paths styles are asked for: extensions in and out of the default table,
\* in capitals, no extension, an empty extension, a name that starts with its
\* only dot
QueryPaths ==
    { BaseDir \o <<"/", "t", ".", "p", "y">>,
      BaseDir \o <<"/", "t", ".", "P", "Y">>,
      BaseDir \o <<"/", "t", ".", "c", "s", "s">>,
      BaseDir \o <<"/", "t", ".", "z", "z">>,
      BaseDir \o <<"/", "t", ".", "q">>,
      BaseDir \o <<"/", "t">>,
      BaseDir \o <<"/", "t", ".">>,
      BaseDir \o <<"/", ".", "p", "y">> }

\* the allow-lists given with --extensions: "py, Q", "Zz ,css" and "py,"
ExtensionLists ==
    { <<"p", "y", ",", " ", "Q">>,
      <<"Z", "z", " ", ",", "c", "s", "s">>,
      <<"p", "y", ",">> }

\* one call of determine_comment_style and of should_process_file on a path,
\* as the tests make them
query_style ==
    /\ \E p \in QueryPaths :
          resolved' = Some([path |-> p, style |-> determine_comment_style(p),
                            eligible |-> should_process_file(p)])
    /\ UNCHANGED <<disk, path, args, base_dir, extension_styles, faults,
                   processed_count, skipped_count, hist, config,
                   pending, workers, summary>>

\* the Cli that Cli::new builds from the arguments and the configuration file
InitNew ==
    /\ base_dir = BaseDir
    /\ faults = FALSE
    /\ args \in [strip : {TRUE}, clean : {FALSE}, dry_run : {FALSE},
                 comment_style : {None, Some("Percent")},
                 config_file : {None, Some(<<"c">>)},
                 extensions : {None} \cup {Some(l) : l \in ExtensionLists}]
    /\ config \in (IF args.config_file = None THEN {None}
                   ELSE {None} \cup {Some(c) : c \in Configs})
    /\ extension_styles = new_extension_styles(args, config)
    /\ path \in QueryPaths
    /\ disk = [p \in {path} |-> <<"c", "(", ")", ";", "\n">>]
    /\ processed_count = 0
    /\ skipped_count = 0
    /\ hist = <<>>
    /\ resolved = None
    /\ pending = {}
    /\ workers = <<>>
    /\ summary = None

NextNew == process_file \/ query_style

SpecNew == InitNew /\ [][NextNew]_vars

(***************************************************************************)
(* Cli::run: the parallel walk. The walker hands each of its results to    *)
(* one of the worker threads; a worker that calls process_file reads the   *)
(* file in one step and writes it in a later one. Thread 0 is not a worker *)
(* of the walk: it is a call of process_file on `path` by another run of   *)
(* the tool at the same time, with counters of its own.                    *)
(***************************************************************************)
Workers == 1..NumWorkers

Threads == 0..NumWorkers

\* a thread between two callbacks
Idle == [pc |-> "idle", path |-> None, content |-> None]

\* the files of the tree: two files the table has a style for, one it has none for
RunFiles == {BaseDir \o <<"/", "t", ".", "j", "s">>, BaseDir \o <<"/", "t", ".", "p", "y">>}

OtherFile == BaseDir \o <<"/", "n", ".", "x">>

\* what the walker yields: the directory, the files, an error
WalkEntries ==
    {[kind |-> "dir", path |-> BaseDir], [kind |-> "error", path |-> BaseDir],
     [kind |-> "file", path |-> OtherFile]}
    \cup {[kind |-> "file", path |-> f] : f \in RunFiles}

\* a callback that returns WalkState::Quit after an error of the walk or of
\* process_file: the results left are dropped
Quit_on_error(outcome, rest) == IF outcome \in {"error", "Err"} THEN {} ELSE rest

\* run, lines 539 and 544: the callback returns WalkState::Continue whatever the
\* outcome, the walk goes on with the results left
Continue(outcome, rest) == rest

\* a plain store of the increment, which drops what the counter held
store(count, n) == n

\* AtomicUsize::fetch_add(n, Ordering::Relaxed)
fetch_add(count, n) == count + n

\* the record of a call of process_file that thread t finished; r.file is the
\* content the call read
call_record(t, p, r, after, read, write) ==
    [before |-> r.file, after |-> after, outcome |-> r.outcome, result |-> r.result,
     wrote |-> r.wrote, printed |-> r.printed, assembled |-> r.assembled,
     processed |-> r.processed, skipped |-> r.skipped,
     read |-> ReadResult(r.outcome, read), write |-> WriteResult(r.outcome, write),
     worker |-> t, path |-> p]

\* the return of process_file in thread t: the counters of this Cli when the
\* thread is one of its workers, the record of the call
return_from(t, p, r, after, read, write) ==
    /\ processed_count' = IF t \in Workers THEN fetch_add(processed_count, r.processed)
                          ELSE processed_count
    /\ skipped_count' = IF t \in Workers THEN fetch_add(skipped_count, r.skipped)
                        ELSE skipped_count
    /\ hist' = Append(hist, call_record(t, p, r, after, read, write))
    /\ workers' = [workers EXCEPT ![t] = Idle]
    /\ pending' = IF t \in Workers THEN Continue(r.result, pending) ELSE pending

\* run, lines 523-548: a worker takes a result of the walk; it calls
\* process_file for a file the table has a style for, counts any other file
\* as skipped, and only logs an error. The workers are alike: the idle one
\* with the lowest number takes the result.
walk_entry(w) ==
    /\ workers[w].pc = "idle"
    /\ \A v \in Workers : v < w => workers[v].pc # "idle"
    /\ \E entry \in pending :
          /\ pending' = Continue(entry.kind, pending \ {entry})
          /\ IF entry.kind = "file" /\ should_process_file(entry.path)
             THEN /\ workers' = [workers EXCEPT ![w] =
                                    [pc |-> "read", path |-> Some(entry.path),
                                     content |-> None]]
                  /\ UNCHANGED skipped_count
             ELSE /\ skipped_count' = IF entry.kind = "file"
                                      THEN fetch_add(skipped_count, 1)
                                      ELSE skipped_count
                  /\ UNCHANGED workers
    /\ UNCHANGED <<disk, path, args, base_dir, extension_styles, faults,
                   processed_count, hist, config, resolved, summary>>

\* process_file, lines 221-434 in thread t: the read of the file and what
\* follows it up to the write; the call returns here unless it has content
\* to write
read_step(t) ==
    /\ workers[t].pc = "read"
    /\ \E read \in ReadResults :
          \E r \in {process_file_at(workers[t].path[1], disk[workers[t].path[1]],
                                    read, "Ok")} :
              IF r.outcome = "written"
              THEN /\ workers' = [workers EXCEPT ![t] =
                                     [pc |-> "write", path |-> workers[t].path,
                                      content |-> Some(disk[workers[t].path[1]])]]
                   /\ UNCHANGED <<processed_count, skipped_count, hist, pending>>
              ELSE return_from(t, workers[t].path[1], r, disk[workers[t].path[1]],
                               read, "Ok")
    /\ UNCHANGED <<disk, path, args, base_dir, extension_styles, faults,
                   config, resolved, summary>>

\* process_file, lines 436-453 in thread t: fs::write of the content
\* assembled from what the thread read, then the counter
write_step(t) ==
    /\ workers[t].pc = "write"
    /\ \E write \in WriteResults :
          \E r \in {process_file_at(workers[t].path[1], workers[t].content[1],
                                    "Ok", write)} :
              /\ disk' = IF r.wrote THEN [disk EXCEPT ![workers[t].path[1]] = r.file]
                         ELSE disk
              /\ return_from(t, workers[t].path[1],
                             [r EXCEPT !.file = workers[t].content[1]],
                             IF r.wrote THEN r.file ELSE disk[workers[t].path[1]],
                             "Ok", write)
    /\ UNCHANGED <<path, args, base_dir, extension_styles, faults,
                   config, resolved, summary>>

\* Cli::get_stats
get_stats == <<processed_count, skipped_count>>

\* run, lines 550-553: the walk is over, the summary is printed
print_summary ==
    /\ summary = None
    /\ pending = {}
    /\ \A w \in Workers : workers[w].pc = "idle"
    /\ summary' = Some(get_stats)
    /\ UNCHANGED <<disk, path, args, base_dir, extension_styles, faults,
                   processed_count, skipped_count, hist, config, resolved,
                   pending, workers>>

\* the header of the style of p, for p below BaseDir
HeaderOf(p) ==
    first_line(ConfigTable[Extension(p)[1]], p, BaseDir)

\* the files of the tree: the header and a code line, a code line alone, a
\* path comment for another path and a code line without final newline
RunContents(p) ==
    { HeaderOf(p) \o <<"\n">> \o <<"c", "(", ")", ";">> \o <<"\n">>,
      <<"c", "(", ")", ";">> \o <<"\n">>,
      Comment(ConfigTable[Extension(p)[1]], <<"o", "/", "a", ".", "j", "s">>) \o <<"\n">> \o <<"c", "(", ")", ";">> }

\* the file a concurrent run of the tool works on
RunPath == BaseDir \o <<"/", "t", ".", "j", "s">>

\* a run on the tree, next to a call of process_file on RunPath by another
\* run; the file system does not fail
InitRun ==
    /\ base_dir = BaseDir
    /\ extension_styles = ConfigTable
    /\ faults = FALSE
    /\ args \in [strip : BOOLEAN, clean : BOOLEAN, dry_run : BOOLEAN, comment_style : {None},
                 config_file : {None}, extensions : {None}]
    /\ path = RunPath
    /\ disk \in {d \in [RunFiles -> UNION {RunContents(p) : p \in RunFiles}] :
                    \A p \in RunFiles : d[p] \in RunContents(p)}
    /\ processed_count = 0
    /\ skipped_count = 0
    /\ hist = <<>>
    /\ config = None
    /\ resolved = None
    /\ pending = WalkEntries
    /\ workers = [t \in Threads |->
                     IF t \in Workers THEN Idle
                     ELSE [pc |-> "read", path |-> Some(path), content |-> None]]
    /\ summary = None

\* a run on the tree alone, with a file system that may fail a read or a write
InitRunIO ==
    /\ base_dir = BaseDir
    /\ extension_styles = ConfigTable
    /\ faults = TRUE
    /\ args \in [strip : BOOLEAN, clean : BOOLEAN, dry_run : BOOLEAN, comment_style : {None},
                 config_file : {None}, extensions : {None}]
    /\ path = RunPath
    /\ disk \in {d \in [RunFiles -> UNION {RunContents(p) : p \in RunFiles}] :
                    \A p \in RunFiles : d[p] \in RunContents(p)}
    /\ processed_count = 0
    /\ skipped_count = 0
    /\ hist = <<>>
    /\ config = None
    /\ resolved = None
    /\ pending = WalkEntries
    /\ workers = [t \in Threads |-> Idle]
    /\ summary = None

NextRun ==
    \/ \E w \in Workers : walk_entry(w)
    \/ \E t \in Threads : read_step(t)
    \/ \E t \in Threads : write_step(t)
    \/ print_summary

SpecRun == InitRun /\ [][NextRun]_vars

\* a result of the walk is left or a thread is inside process_file: a worker
\* can take a step (ENABLED of the walk_entry, read_step and write_step
\* disjuncts of NextRun, written out)
WorkLeft == pending # {} \/ \E t \in Threads : workers[t].pc # "idle"

\* the threads are scheduled and the calls of the file system return: while
\* work is left a step of a thread is taken in the end (weak fairness of the
\* steps of the threads, which all change pending or workers), and
\* run prints the summary once the walk returns
SpecRunFair ==
    /\ InitRunIO
    /\ [][NextRun]_vars
    /\ ([]<>~WorkLeft \/ []<><<TRUE>>_<<pending, workers>>)
    /\ WF_vars(print_summary)

(***************************************************************************)
(* Cli::run: the directories the walk leaves out.                          *)
(***************************************************************************)
\* load_ignored_dirs without a .gitignore: the names of ignore.cfg, of which
\* the tests rely on these two
ignored_dirs == {<<"b", "u", "i", "l", "d">>, <<"n", "o", "d", "e", "_", "m", "o", "d", "u", "l", "e", "s">>}

\* Cli::should_skip_directory
should_skip_directory(p) ==
    IF args.force THEN FALSE
    ELSE \E i \in 1..Len(Components(p)) : Components(p)[i] \in ignored_dirs

\* run, lines 507-518: the filter handed to the walker; files are always kept
filter_entry(entry) ==
    IF entry.kind = "dir" THEN ~should_skip_directory(entry.path) ELSE TRUE

\* the directories between the root of the walk and the entry at p
DirsBelow(root, p) ==
    {SubSeq(p, 1, k - 1) : k \in {j \in (Len(root) + 2)..Len(p) : p[j] = "/"}}

\* WalkBuilder::build_parallel: the walker yields its root as it is and, below
\* it, the entries whose directories and which themselves pass the filter
Walk(root, files) ==
    {[kind |-> "dir", path |-> root]}
    \cup {e \in {[kind |-> "dir", path |-> d] : d \in UNION {DirsBelow(root, f) : f \in files}}
              \cup {[kind |-> "file", path |-> f] : f \in files} :
            /\ filter_entry(e)
            /\ \A d \in DirsBelow(root, e.path) : filter_entry([kind |-> "dir", path |-> d])}

\* the directories the tool is started on: the base directory, and a
\* directory below it whose name is in the ignored set
WalkRoots == {BaseDir, BaseDir \o <<"/", "b", "u", "i", "l", "d">>}

\* the files below the root: one in the root, one in a directory the ignored
\* set does not name, one two levels below node_modules
TreeFiles(root) ==
    { root \o <<"/", "t", ".", "j", "s">>,
      root \o <<"/", "s", "r", "c", "/", "t", ".", "j", "s">>,
      root \o <<"/", "n", "o", "d", "e", "_", "m", "o", "d", "u", "l", "e", "s", "/", "p", "/", "t", ".", "j", "s">> }

\* a run of the tool on args.dir, with and without --force
InitWalk ==
    /\ base_dir = BaseDir
    /\ extension_styles = ConfigTable
    /\ faults = FALSE
    /\ args \in [strip : {TRUE}, clean : {FALSE}, dry_run : BOOLEAN, comment_style : {None},
                 config_file : {None}, extensions : {None},
                 force : BOOLEAN, dir : WalkRoots]
    /\ path = args.dir \o <<"/", "t", ".", "j", "s">>
    /\ disk = [f \in TreeFiles(args.dir) |-> <<"c", "(", ")", ";", "\n">>]
    /\ processed_count = 0
    /\ skipped_count = 0
    /\ hist = <<>>
    /\ config = None
    /\ resolved = None
    /\ pending = Walk(args.dir, TreeFiles(args.dir))
    /\ workers = [t \in Threads |-> Idle]
    /\ summary = None

SpecWalk == InitWalk /\ [][NextRun]_vars

(***************************************************************************)
(* Vocabulary of the properties. A property speaks of the calls made so    *)
(* far: hist[i] is the i-th call of process_file.                          *)
(***************************************************************************)
Calls == 1..Len(hist)

\* the style of the file, from the extension table
StyleOfFile == extension_styles[ToLowercase(Extension(path)[1])]

\* the canonical header, written out: <prefix><path below the base><suffix>
CanonicalHeader ==
    Comment(StyleOfFile, SubSeq(path, Len(base_dir) + 2, Len(path)))

\* the lines of the file before call i
LinesBefore(i) == Lines(hist[i].before)

\* call i read and decoded the file
ReadContent(i) ==
    hist[i].outcome \in {"already_correct", "identical", "written", "write_error", "dry_run"}

\* call i went on to assemble new content
Assembled(i) == hist[i].assembled # None

\* the content call i produced: the assembled content, or the content as read
\* when the call returned before assembling
Produced(i) ==
    IF Assembled(i) THEN hist[i].assembled[1].new_content ELSE hist[i].before

\* line 0 of the file before call i is the canonical header (trimmed equality)
HeaderAtLine0(i) ==
    LinesBefore(i) # <<>> /\ Trim(LinesBefore(i)[1]) = Trim(CanonicalHeader)

\* the line matches the path-comment pattern of the file's style
PathShaped(line) == IsMatch(StyleOfFile, Trim(line))

\* how often a line occurs among lines
Occurrences(lines, line) == Cardinality({k \in 1..Len(lines) : lines[k] = line})

\* call i was counted as skipped and not as processed
CountedSkipped(i) == hist[i].skipped = 1 /\ hist[i].processed = 0

\* call i reported the file in the unchanged form only
ReportedUnchanged(i) == hist[i].printed = << <<"no_change", CanonicalHeader>> >>

\* <prefix>path/to/name.ext<suffix>: a comment that is a multi-segment path
StalePathComment == Comment(StyleOfFile, <<"o", "/", "a", ".", "j", "s">>)

\* the same path written with backslash separators
BackslashPathComment == Comment(StyleOfFile, <<"o", "\\", "a", ".", "j", "s">>)

\* <prefix>path/to/name.ext - extra text<suffix>: a path followed by prose
PathWithProseComment ==
    Comment(StyleOfFile, <<"o", "/", "a", ".", "j", "s", " ", "-", " ", "x">>)

(***************************************************************************)
(* C1. Idempotence: in a real run (dry_run off), a second call of          *)
(* process_file with the same configuration leaves the content as the      *)
(* first call left it, writes nothing and is counted as skipped.           *)
(***************************************************************************)
C1_Idempotence ==
    (Len(hist) >= 2 /\ ~args.dry_run /\ ReadContent(1) /\ ReadContent(2))
        => /\ hist[2].after = hist[1].after
           /\ ~hist[2].wrote
           /\ CountedSkipped(2)

(***************************************************************************)
(* C2. A comment holding a multi-segment path followed by prose does not   *)
(* match the path-comment pattern of its style, and a call with stripping  *)
(* enabled keeps every such line.                                          *)
(***************************************************************************)
C2_PathWithProseKept ==
    \A i \in Calls :
        (ReadContent(i) /\ args.strip)
            => \A j \in 1..Len(LinesBefore(i)) :
                   LinesBefore(i)[j] = PathWithProseComment
                       => /\ ~PathShaped(LinesBefore(i)[j])
                          /\ Occurrences(Lines(Produced(i)), PathWithProseComment)
                                 = Occurrences(LinesBefore(i), PathWithProseComment)

(***************************************************************************)
(* C3. With stripping enabled, a line whose trimmed text is exactly        *)
(* <prefix>path/to/name.ext<suffix> does not occur in the content the call *)
(* produces.                                                               *)
(***************************************************************************)
C3_StalePathCommentStripped ==
    \A i \in Calls :
        (ReadContent(i) /\ args.strip)
            => \A j \in 1..Len(LinesBefore(i)) :
                   Trim(LinesBefore(i)[j]) = StalePathComment
                       => \A k \in 1..Len(Lines(Produced(i))) :
                              Trim(Lines(Produced(i))[k]) # StalePathComment

(***************************************************************************)
(* C4. With stripping enabled (and clean off, so that line 0 is kept) and  *)
(* line 0 equal to the canonical header, the call does not stop at the     *)
(* header check: the content it produces keeps line 0 and holds no other   *)
(* line that matches the pattern.                                          *)
(***************************************************************************)
C4_NoShortCircuitWhenStripping ==
    \A i \in Calls :
        (ReadContent(i) /\ args.strip /\ ~args.clean /\ HeaderAtLine0(i))
            => /\ Lines(Produced(i)) # <<>>
               /\ Trim(Lines(Produced(i))[1]) = Trim(CanonicalHeader)
               /\ \A k \in 2..Len(Lines(Produced(i))) : ~PathShaped(Lines(Produced(i))[k])

C6_TrailingNewlineFidelity ==
    \A i \in Calls :
        Assembled(i)
            => LET content == hist[i].before
                   new     == hist[i].assembled[1].new_content
               IN  IF EndsWith(content, "\n") \/ content = <<>>
                   THEN /\ EndsWith(new, "\n")
                        /\ ~EndsWith(SubSeq(new, 1, Len(new) - 1), "\n")
                   ELSE ~EndsWith(new, "\n")

(***************************************************************************)
(* C7. Clean mode removes headers: when line 0 is the canonical header or  *)
(* another path-shaped comment, a call in clean mode produces content with *)
(* that line taken out and with no line that matches the pattern, whatever *)
(* the strip flag is.                                                      *)
(***************************************************************************)
C7_CleanRemovesHeaders ==
    \A i \in Calls :
        (/\ ReadContent(i) /\ args.clean /\ LinesBefore(i) # <<>>
         /\ (HeaderAtLine0(i) \/ PathShaped(LinesBefore(i)[1])))
            => /\ Occurrences(Lines(Produced(i)), LinesBefore(i)[1])
                      < Occurrences(LinesBefore(i), LinesBefore(i)[1])
               /\ \A k \in 1..Len(Lines(Produced(i))) : ~PathShaped(Lines(Produced(i))[k])

RECURSIVE IsSubsequence(_, _)
\* sub is got from seq by leaving elements out
IsSubsequence(sub, seq) ==
    IF sub = <<>> THEN TRUE
    ELSE IF seq = <<>> THEN FALSE
    ELSE IF Head(sub) = Head(seq) THEN IsSubsequence(Tail(sub), Tail(seq))
    ELSE IsSubsequence(sub, Tail(seq))

RECURSIVE WithoutPathComments(_)
\* the lines that do not match the path-comment pattern, in their order
WithoutPathComments(lines) ==
    IF lines = <<>> THEN <<>>
    ELSE (IF PathShaped(Head(lines)) THEN <<>> ELSE <<Head(lines)>>)
         \o WithoutPathComments(Tail(lines))

\* the original lines a call retains
Retained(i) ==
    IF args.strip THEN WithoutPathComments(LinesBefore(i)) ELSE LinesBefore(i)

HeaderReplaced(i) ==
    /\ ReadContent(i) /\ args.strip /\ ~args.clean
    /\ LinesBefore(i) # <<>>
    /\ PathShaped(LinesBefore(i)[1])
    /\ ~HeaderAtLine0(i)

\* the header stands at line 0 of the assembled lines, the old line 0 is gone,
\* the other lines that match the pattern are removed and the rest are kept
ReplacedAtLine0(i) ==
    LET final == hist[i].assembled[1].final_content_lines
    IN  /\ final = <<CanonicalHeader>> \o WithoutPathComments(Tail(LinesBefore(i)))
        /\ Occurrences(final, LinesBefore(i)[1]) = 0
        /\ Lines(hist[i].assembled[1].new_content)[1] = CanonicalHeader

OldHeaderKept(i) ==
    /\ ReadContent(i) /\ ~args.strip /\ ~args.clean
    /\ LinesBefore(i) # <<>>
    /\ PathShaped(LinesBefore(i)[1])
    /\ ~HeaderAtLine0(i)

KeptByRetention(i) ==
    LET lines == LinesBefore(i)
        matched == {k \in 1..Len(lines) : args.strip /\ PathShaped(lines[k])}
        kept == {k \in 1..Len(lines) :
                    /\ k \notin matched
                    /\ ~(k = 1 /\ HeaderAtLine0(i))}
    IN  [k \in 1..Len(lines) |-> k \in kept]

RECURSIVE SelectKept(_, _, _)
\* the lines of `lines` from k on that `keep` marks, in their order
SelectKept(lines, keep, k) ==
    IF k > Len(lines) THEN <<>>
    ELSE (IF keep[k] THEN <<lines[k]>> ELSE <<>>) \o SelectKept(lines, keep, k + 1)

\* the lines of the new content below the header the call put in
BodyOfProduced(i) ==
    LET new == Lines(hist[i].assembled[1].new_content)
    IN  IF ~args.clean /\ new # <<>> THEN Tail(new) ELSE new

(***************************************************************************)
(* C12. Line retention: in every mode, the lines of the content a call     *)
(* assembles are, below the header, the original lines in their order,     *)
(* without line 0 when the header supersedes it and without the lines the  *)
(* scan matched; no other line, blank lines included, is dropped or        *)
(* altered.                                                                *)
(***************************************************************************)
C12_LineRetention ==
    \A i \in Calls :
        Assembled(i)
            => BodyOfProduced(i) = SelectKept(LinesBefore(i), KeptByRetention(i), 1)

(***************************************************************************)
(* C13. Apply step: a call writes the file if and only if dry_run is off   *)
(* and it assembled content that differs from the content read (and the    *)
(* write succeeds); what it writes is the assembled content. In a dry run  *)
(* the file is left as it was, and in a real run a file whose assembled    *)
(* content equals the original is not written and stays as it was.         *)
(***************************************************************************)
C13_ApplyStep ==
    \A i \in Calls :
        /\ hist[i].wrote <=> /\ ~args.dry_run
                             /\ Assembled(i)
                             /\ hist[i].assembled[1].new_content # hist[i].before
                             /\ hist[i].result = "Ok"
        /\ (hist[i].wrote => hist[i].after = hist[i].assembled[1].new_content)
        /\ (~hist[i].wrote => hist[i].after = hist[i].before)
        /\ (args.dry_run => hist[i].after = hist[i].before)

\* C13's case: a dry run that assembled new content and left the file alone,
\* followed by a second dry run that found the same file
C13_Witness ==
    /\ Len(hist) = 2
    /\ args.dry_run
    /\ hist[1].outcome = "dry_run"
    /\ hist[1].assembled[1].new_content # hist[1].before
    /\ hist[2].before = hist[1].before

\* call i reached fs::write (line 437): it read the file, assembled content
\* that differs, and the run is a real one
WriteAttempted(i) == hist[i].write # None

(***************************************************************************)
(* C16. I/O failures are counted and propagated: a call whose read fails   *)
(* (for a reason other than undecodable content) or whose write fails      *)
(* returns an error, adds exactly one to the skipped counter and leaves    *)
(* the processed counter alone.                                            *)
(***************************************************************************)
C16_IoFailureCountedAndPropagated ==
    \A i \in Calls :
        (hist[i].read = Some("Err") \/ hist[i].write = Some("Err"))
            => /\ hist[i].result = "Err"
               /\ CountedSkipped(i)

(***************************************************************************)
(* C18. Undecodable content is a skip, not an error: a call whose read     *)
(* reports invalid data returns Ok, leaves the file as it was, adds        *)
(* exactly one to the skipped counter and nothing to the processed one.    *)
(***************************************************************************)
C18_UndecodableIsSkip ==
    \A i \in Calls :
        hist[i].read = Some("InvalidData")
            => /\ hist[i].result = "Ok"
               /\ ~hist[i].wrote
               /\ hist[i].write = None
               /\ hist[i].after = hist[i].before
               /\ CountedSkipped(i)

\* C18's case: a real run finds the file undecodable, after an earlier call
\* wrote it
C18_Witness ==
    /\ Len(hist) = 2
    /\ ~args.dry_run
    /\ hist[1].wrote
    /\ hist[2].read = Some("InvalidData")
    /\ skipped_count = 1 /\ processed_count = 1

\* the lowercased extension of each path styles are asked for, written out
ExtensionKey(p) ==
    CASE p = BaseDir \o <<"/", "t", ".", "p", "y">> -> Some(<<"p", "y">>)
      [] p = BaseDir \o <<"/", "t", ".", "P", "Y">> -> Some(<<"p", "y">>)
      [] p = BaseDir \o <<"/", "t", ".", "c", "s", "s">> -> Some(<<"c", "s", "s">>)
      [] p = BaseDir \o <<"/", "t", ".", "z", "z">> -> Some(<<"z", "z">>)
      [] p = BaseDir \o <<"/", "t", ".", "q">> -> Some(<<"q">>)
      [] p = BaseDir \o <<"/", "t", ".">> -> Some(<<>>)
      [] OTHER -> None

(***************************************************************************)
(* C19. Style resolution: determine_comment_style returns the override     *)
(* style for every path, whatever its extension, when an override is       *)
(* configured; otherwise the table entry of the lowercased extension, and  *)
(* None when the path has no extension or the table has no entry for it.   *)
(***************************************************************************)
C19_StyleResolution ==
    resolved # None
        => LET key == ExtensionKey(resolved[1].path)
           IN  resolved[1].style
                   = IF args.comment_style # None THEN args.comment_style
                     ELSE IF key = None THEN None
                     ELSE IF key[1] \in DOMAIN extension_styles
                     THEN Some(extension_styles[key[1]])
                     ELSE None

\* C19's case: an override is configured, the table has an entry with another
\* style for the extension in capitals of the path asked for
C19_Witness ==
    /\ resolved # None
    /\ args.comment_style = Some("Percent")
    /\ resolved[1].path = BaseDir \o <<"/", "t", ".", "P", "Y">>
    /\ <<"p", "y">> \in DOMAIN extension_styles
    /\ extension_styles[<<"p", "y">>] = "Semi"
    /\ resolved[1].style = Some("Percent")

\* what each line of a user configuration enters in the table, written out:
\* <<extension, style>>, or None for a line that enters nothing
ExpectedEntry(line) ==
    CASE line = <<".", "p", "y", " ", "/", "/">> -> Some(<<<<"p", "y">>, "Slash">>)
      [] line = <<"P", "Y", " ", ";">> -> Some(<<<<"p", "y">>, "Semi">>)
      [] line = <<"z", "z", " ", "#">> -> Some(<<<<"z", "z">>, "Hash">>)
      [] line = <<" ", ".", "c", "s", "s", " ", " ", "/", "*", " ", " ", " ", "*", "/", " ">> -> Some(<<<<"c", "s", "s">>, "SlashStar">>)
      [] OTHER -> None

\* the lines of the user configuration that enter a style for the extension
EntriesFor(ext) ==
    {k \in 1..Len(Lines(config[1])) :
        /\ ExpectedEntry(Lines(config[1])[k]) # None
        /\ ExpectedEntry(Lines(config[1])[k])[1][1] = ext}

\* the style of the last of these lines
LastEntryFor(ext) ==
    ExpectedEntry(Lines(config[1])[CHOOSE k \in EntriesFor(ext) :
                                       \A j \in EntriesFor(ext) : j <= k])[1][2]

\* the extensions of the default table and of the user configurations
KnownExtensions == DOMAIN ConfigTable \cup {<<"z", "z">>}

\* a user configuration was given and read, and no allow-list cuts the table
UserConfigLoaded ==
    args.config_file # None /\ config # None /\ args.extensions = None

(***************************************************************************)
(* C20 as claimed. Config merge: when a user configuration is supplied,    *)
(* the table holds every default entry whose extension the user            *)
(* configuration does not enter, and for every extension it enters the     *)
(* style of the user's last entry.                                         *)
(***************************************************************************)
C20_ConfigMerge ==
    UserConfigLoaded
        => \A ext \in KnownExtensions :
              IF EntriesFor(ext) # {}
              THEN ext \in DOMAIN extension_styles
                   /\ extension_styles[ext] = LastEntryFor(ext)
              ELSE ext \in DOMAIN ConfigTable
                       => ext \in DOMAIN extension_styles
                          /\ extension_styles[ext] = ConfigTable[ext]

(***************************************************************************)
(* C20 as amended. When a user configuration is supplied and can be read,  *)
(* the table holds exactly the extensions the user configuration enters,   *)
(* each with the style of the user's last entry for it; the default        *)
(* entries are not in it. The default table is used when no configuration  *)
(* is supplied or the file cannot be read.                                 *)
(***************************************************************************)
C20_ConfigReplacesDefaults ==
    /\ UserConfigLoaded
          => /\ DOMAIN extension_styles = {ext \in KnownExtensions : EntriesFor(ext) # {}}
             /\ \A ext \in DOMAIN extension_styles :
                   extension_styles[ext] = LastEntryFor(ext)
    /\ ((args.config_file = None \/ config = None) /\ args.extensions = None)
          => extension_styles = ConfigTable

\* C20's case: a user configuration with two entries for py, the last one in
\* capitals, and a process_file call made under the table built from it
C20_Witness ==
    /\ UserConfigLoaded
    /\ config[1] = <<".", "p", "y", " ", "/", "/">> \o <<"\n">> \o <<"P", "Y", " ", ";">> \o <<"\n">>
    /\ extension_styles[<<"p", "y">>] = "Semi"
    /\ <<"j", "s">> \notin DOMAIN extension_styles
    /\ hist # <<>>

(***************************************************************************)
(* Vocabulary of the properties of a run.                                  *)
(***************************************************************************)
\* the canonical header of the file at p, written out
CanonicalHeaderOf(p) ==
    Comment(extension_styles[ToLowercase(Extension(p)[1])],
            SubSeq(p, Len(base_dir) + 2, Len(p)))

\* the first line of the content is the canonical header of the file at p
HeaderFirst(content, p) ==
    Lines(content) # <<>> /\ Trim(Lines(content)[1]) = Trim(CanonicalHeaderOf(p))

\* call i reports no change: all it prints is of the no-change form
ReportsNoChange(i) ==
    /\ hist[i].printed # <<>>
    /\ \A k \in 1..Len(hist[i].printed) : hist[i].printed[k][1] = "no_change"

\* a call that found the canonical header first neither writes nor reports a
\* change
CallsOnCorrectFileTouchNothing ==
    \A i \in Calls :
        HeaderFirst(hist[i].before, hist[i].path)
           => /\ ~hist[i].wrote
              /\ hist[i].write = None
              /\ ReportsNoChange(i)
              /\ hist[i].after = hist[i].before

\* the step leaves every file whose first line is its header as it is
CorrectFilesKept ==
    \A f \in RunFiles : HeaderFirst(disk[f], f) => disk'[f] = disk[f]

ProcessedOutcomes == {"written", "dry_run"}

\* the exits of process_file that count the file as skipped
SkippedOutcomes ==
    {"no_style", "no_delimiters", "non_utf8", "already_correct", "no_regex",
     "identical", "write_error"}

\* the calls of process_file the workers of this run finished with an exit
\* among outcomes
ReturnedWith(outcomes) ==
    {i \in Calls : hist[i].worker \in Workers /\ hist[i].outcome \in outcomes}

\* the files the walk yields that process_file is not called for
FilesPassedOver == {e \in WalkEntries : e.kind = "file" /\ e.path \notin RunFiles}

\* the step lowers neither counter
CountersOnlyIncrease ==
    /\ processed_count' >= processed_count
    /\ skipped_count' >= skipped_count

(***************************************************************************)
(* C15. Counter integrity under parallelism: the processed and skipped     *)
(* counters only ever increase, and in every interleaving of the workers   *)
(* the totals get_stats returns once run is over equal the number of files *)
(* with each kind of outcome: one processed per changed file, one skipped  *)
(* per file left alone or passed over, none lost and none counted twice.   *)
(***************************************************************************)
C15_CounterIntegrity ==
    /\ [][CountersOnlyIncrease]_vars
    /\ [](summary # None
             => summary[1] = <<Cardinality(ReturnedWith(ProcessedOutcomes)),
                               Cardinality(ReturnedWith(SkippedOutcomes))
                                   + Cardinality(FilesPassedOver)>>)

\* C15's case: the run is over, both workers returned from process_file, and
\* the summary counts a processed file and two skipped ones
C15_Witness ==
    /\ summary # None
    /\ \A w \in Workers : \E i \in Calls : hist[i].worker = w
    /\ summary[1][1] >= 1
    /\ summary[1][2] >= 2

\* the files of the walk process_file is called for
FilesToProcess == {e.path : e \in {x \in WalkEntries : x.kind = "file"}} \cap RunFiles

\* a worker of the run finished a call of process_file on f
Handled(f) == \E i \in Calls : hist[i].path = f /\ hist[i].worker \in Workers

(***************************************************************************)
(* C17. Failure isolation and completion: during run, a failure of         *)
(* process_file on one file or an error of the directory walk never stops  *)
(* the processing of the remaining files, every one of them has been       *)
(* handled when the summary is printed, and the run always reaches the     *)
(* summary of the processed and skipped counts in the end.                 *)
(***************************************************************************)
C17_FailureIsolationAndCompletion ==
    /\ [](summary # None => \A f \in FilesToProcess : Handled(f))
    /\ [](summary # None => summary[1] = <<processed_count, skipped_count>>)
    /\ <>(summary # None)

\* C17's case: process_file failed on a file, a worker then changed the other
\* file, and the summary has been printed
C17_Witness ==
    /\ summary # None
    /\ \E i \in Calls, j \in Calls :
          /\ i < j
          /\ hist[i].result = "Err"
          /\ hist[i].worker \in Workers
          /\ hist[j].path # hist[i].path
          /\ hist[j].wrote

(***************************************************************************)
(* Vocabulary of the allow-list.                                           *)
(***************************************************************************)
\* the extensions of the allow-list, trimmed and lowercased, written out
AllowListed ==
    CASE args.extensions = Some(<<"p", "y", ",", " ", "Q">>) -> {<<"p", "y">>, <<"q">>}
      [] args.extensions = Some(<<"Z", "z", " ", ",", "c", "s", "s">>)
             -> {<<"z", "z">>, <<"c", "s", "s">>}
      [] args.extensions = Some(<<"p", "y", ",">>) -> {<<"p", "y">>, <<>>}

\* the style the table has for the extension before the allow-list is
\* applied: the user's last entry when a configuration was read, the default
\* otherwise; None when there is none
StyleBeforeFilter(ext) ==
    IF args.config_file # None /\ config # None
    THEN IF ext \in KnownExtensions /\ EntriesFor(ext) # {}
         THEN Some(LastEntryFor(ext)) ELSE None
    ELSE IF ext \in DOMAIN ConfigTable THEN Some(ConfigTable[ext]) ELSE None

(***************************************************************************)
(* C21. Extension allow-list: when an allow-list is given, the keys of the *)
(* final table are exactly the trimmed, lowercased extensions of the list; *)
(* each keeps the style the table had for it and gets Slash when the table *)
(* had none, and should_process_file is true exactly for the files whose   *)
(* lowercased extension is in the list.                                    *)
(***************************************************************************)
C21_ExtensionAllowList ==
    args.extensions # None
        => /\ DOMAIN extension_styles = AllowListed
           /\ \A ext \in AllowListed :
                 extension_styles[ext]
                     = IF StyleBeforeFilter(ext) # None
                       THEN StyleBeforeFilter(ext)[1] ELSE "Slash"
           /\ resolved # None
                 => (resolved[1].eligible
                        <=> /\ ExtensionKey(resolved[1].path) # None
                            /\ ExtensionKey(resolved[1].path)[1] \in AllowListed)

\* C21's case: the list "py, Q" over a user configuration that gives py the
\* Semi style and has nothing for q; a file t.q was asked for and is eligible
C21_Witness ==
    /\ args.extensions = Some(<<"p", "y", ",", " ", "Q">>)
    /\ args.config_file # None /\ config # None
    /\ extension_styles = (<<"p", "y">> :> "Semi") @@ (<<"q">> :> "Slash")
    /\ resolved # None
    /\ resolved[1].path = BaseDir \o <<"/", "t", ".", "q">>
    /\ resolved[1].eligible

\* the path handed to process_file has no extension, or an extension the
\* table has no entry for
Ineligible ==
    \/ ExtensionKey(path) = None
    \/ ExtensionKey(path)[1] \notin DOMAIN extension_styles

(***************************************************************************)
(* C22. Ineligible files are a no-op: for a path with no extension or      *)
(* whose lowercased extension is not in the table, process_file returns Ok *)
(* without reading or writing the file and without changing either         *)
(* counter, even when an override style is configured.                     *)
(***************************************************************************)
C22_IneligibleIsNoOp ==
    Ineligible
        => /\ processed_count = 0
           /\ skipped_count = 0
           /\ \A i \in Calls :
                 /\ hist[i].result = "Ok"
                 /\ hist[i].read = None
                 /\ hist[i].write = None
                 /\ ~hist[i].wrote
                 /\ hist[i].after = hist[i].before
                 /\ disk[path] = hist[i].before

\* C22's case: process_file returned for a file whose extension the table
\* does not have, under an override style
C22_Witness ==
    /\ hist # <<>>
    /\ Ineligible
    /\ args.comment_style = Some("Percent")
    /\ path = BaseDir \o <<"/", "t", ".", "z", "z">>
    /\ <<"p", "y">> \in DOMAIN extension_styles

(***************************************************************************)
(* Vocabulary of the relative path.                                        *)
(***************************************************************************)
\* the path each file is to have in its header, written out
ExpectedRelPath(p) ==
    CASE p = <<"/", "r", "/", "t", ".", "p", "y">> -> <<"t", ".", "p", "y">>
      [] p = <<"/", "r", "/", "d", "/", "t", ".", "p", "y">> -> <<"d", "/", "t", ".", "p", "y">>
      [] p = <<"/", "r", "/", "d", "\\", "t", ".", "p", "y">> -> <<"d", "/", "t", ".", "p", "y">>
      [] p = <<"/", "q", "/", "t", ".", "p", "y">> -> <<"/", "q", "/", "t", ".", "p", "y">>
      [] p = <<".", "/", "t", ".", "p", "y">> -> <<"t", ".", "p", "y">>
      [] p = <<".", "/", ".", "/", "t", ".", "p", "y">> -> <<"t", ".", "p", "y">>
      [] p = <<".", "\\", "q", "\\", "t", ".", "p", "y">> -> <<"q", "/", "t", ".", "p", "y">>
      [] p = <<"/", "r", "/", ".", "/", "t", ".", "p", "y">> -> <<"t", ".", "p", "y">>

\* the header call i built: the first of the lines it assembled
HeaderBuilt(i) == hist[i].assembled[1].final_content_lines[1]

\* call i assembled lines that start with the header
BuiltHeader(i) == hist[i].assembled # None /\ ~args.clean

(***************************************************************************)
(* C23. Relative path in the header: the path in the canonical header is   *)
(* the file path without the base-directory prefix, with every backslash   *)
(* replaced by "/" and a leading "./" removed, and the full path when the  *)
(* file is not under the base directory; the header holds no backslash and *)
(* its path does not start with "./".                                      *)
(***************************************************************************)
C23_RelativePathInHeader ==
    \A i \in Calls :
        BuiltHeader(i)
           => /\ HeaderBuilt(i) = <<"#", " ">> \o ExpectedRelPath(path)
              /\ \A k \in 1..Len(HeaderBuilt(i)) : HeaderBuilt(i)[k] # "\\"
              /\ SubSeq(HeaderBuilt(i), 3, 4) # <<".", "/">>

\* C23's case: a header was written for a relative path whose name starts
\* with ".\" and holds another backslash
C23_Witness ==
    /\ path = <<".", "\\", "q", "\\", "t", ".", "p", "y">>
    /\ \E i \in Calls :
          /\ BuiltHeader(i)
          /\ hist[i].wrote
          /\ Lines(hist[i].after)[1] = <<"#", " ", "q", "/", "t", ".", "p", "y">>

(***************************************************************************)
(* Vocabulary of the ignored directories.                                  *)
(***************************************************************************)
\* the files of the tree that lie beneath a directory with a component in
\* the ignored set, written out
BeneathIgnoredDir ==
    IF args.dir = BaseDir
    THEN { <<"/", "r", "/", "n", "o", "d", "e", "_", "m", "o", "d", "u", "l", "e", "s", "/", "p", "/", "t", ".", "j", "s">> }
    ELSE { <<"/", "r", "/", "b", "u", "i", "l", "d", "/", "t", ".", "j", "s">>,
           <<"/", "r", "/", "b", "u", "i", "l", "d", "/", "s", "r", "c", "/", "t", ".", "j", "s">>,
           <<"/", "r", "/", "b", "u", "i", "l", "d", "/", "n", "o", "d", "e", "_", "m", "o", "d", "u", "l", "e", "s", "/", "p", "/", "t", ".", "j", "s">> }

\* the files of the tree
AllFiles == DOMAIN disk

\* the run handed f to process_file
Processed(f) == \E i \in Calls : hist[i].path = f

\* nothing has been done to f
LeftAlone(f) ==
    /\ ~Processed(f)
    /\ \A t \in Threads : workers[t].path # Some(f)
    /\ disk[f] = <<"c", "(", ")", ";", "\n">>

(***************************************************************************)
(* C24. Ignored directories: with force off, run never processes, modifies *)
(* or counts a file beneath a directory one of whose path components is in *)
(* the ignored set; with force on, should_skip_directory is false for      *)
(* every path and such files are processed and counted like any other.     *)
(***************************************************************************)
C24_IgnoredDirectories ==
    /\ ~args.force
          => /\ \A f \in BeneathIgnoredDir : LeftAlone(f)
             /\ processed_count + skipped_count
                    <= Cardinality(AllFiles \ BeneathIgnoredDir)
    /\ args.force
          => /\ \A f \in AllFiles : ~should_skip_directory(f)
             /\ summary # None
                   => /\ \A f \in AllFiles : Processed(f)
                      /\ summary[1][1] + summary[1][2] = Cardinality(AllFiles)

\* the same for a run started on the base directory, which has no ignored
\* name in its path
C24_BelowTheRoot == args.dir = BaseDir => C24_IgnoredDirectories

(***************************************************************************)
(* Vocabulary of the report.                                               *)
(***************************************************************************)
\* the forms of the lines call i printed
FormsPrinted(i) == {hist[i].printed[k][1] : k \in 1..Len(hist[i].printed)}

\* the report of call i is in the unchanged form
UnchangedForm(i) ==
    "no_change" \in FormsPrinted(i) /\ FormsPrinted(i) \cap {"added", "removed"} = {}

\* the content call i produced is the content it read
ContentUnchanged(i) == Produced(i) = hist[i].before

(***************************************************************************)
(* C25. Report matches outcome: for every file process_file reads, the     *)
(* report is in the unchanged form if and only if the assembled content is *)
(* byte-identical to the original; an unchanged file is never reported     *)
(* with an added or removed line and a changed file is never reported as   *)
(* unchanged.                                                              *)
(***************************************************************************)
C25_ReportMatchesOutcome ==
    \A i \in Calls :
        ReadContent(i)
           => /\ UnchangedForm(i) <=> ContentUnchanged(i)
              /\ ContentUnchanged(i) => FormsPrinted(i) \cap {"added", "removed"} = {}
              /\ ~ContentUnchanged(i) => "no_change" \notin FormsPrinted(i)

\* an unchanged file is never reported with an added or removed line
C25_UnchangedNeverReportedChanged ==
    \A i \in Calls :
        (ReadContent(i) /\ ContentUnchanged(i))
           => FormsPrinted(i) \cap {"added", "removed"} = {}

\* a changed file is never reported as unchanged
C25_ChangedNeverReportedUnchanged ==
    \A i \in Calls :
        (ReadContent(i) /\ ~ContentUnchanged(i)) => "no_change" \notin FormsPrinted(i)

\* the report matches the outcome when clean mode is off
C25_WithoutClean == ~args.clean => C25_ReportMatchesOutcome

\* the exits of process_file that print an internal error
InternalErrorExits == {"no_style", "no_delimiters", "no_regex"}

(***************************************************************************)
(* C26. The defensive configuration-error branches are unreachable: every  *)
(* one of the seven styles has a non-empty prefix and an entry in the      *)
(* delimiter table and in the pattern table, a path should_process_file    *)
(* accepts has a style, and so no call of process_file leaves through an   *)
(* internal-error skip.                                                    *)
(***************************************************************************)
C26_DefensiveBranchesUnreachable ==
    /\ Cardinality(Styles) = 7
    /\ \A style \in Styles :
          /\ delimiters(style)[1] # <<>>
          /\ style \in DOMAIN DELIMITERS
    /\ \A ext \in DOMAIN extension_styles : extension_styles[ext] \in Styles
    /\ resolved # None
          => /\ resolved[1].eligible => resolved[1].style # None
             /\ resolved[1].style # None => resolved[1].style[1] \in Styles
    /\ \A i \in Calls : hist[i].outcome \notin InternalErrorExits

\* C26's case: process_file went through the three look-ups and wrote a file
\* made eligible by the allow-list, with the style of the override
C26_Witness ==
    /\ args.comment_style = Some("Percent")
    /\ args.extensions # None
    /\ path = BaseDir \o <<"/", "t", ".", "q">>
    /\ \E i \in Calls :
          /\ hist[i].outcome = "written"
          /\ Lines(hist[i].after)[1] = <<"%", " ", "t", ".", "q">>

\* call i is to count the file as processed: the content it produced differs
\* from the content it read and, unless this is a dry run, the write succeeded
ToCountProcessed(i) ==
    /\ ~ContentUnchanged(i)
    /\ args.dry_run \/ hist[i].write = Some("Ok")

\* the calls that read the file and are to count it as processed, or as
\* skipped
ReadAndCounted(processed) ==
    {i \in Calls : ReadContent(i) /\ (ToCountProcessed(i) <=> processed)}

\* the calls that found undecodable content
Undecodable == {i \in Calls : hist[i].outcome = "non_utf8"}

(***************************************************************************)
(* C27. One counter update per file: a call of process_file on an eligible *)
(* file whose content is read increments exactly one of the two counters,  *)
(* once: processed if the assembled content differs from the original and, *)
(* in a real run, the write succeeds, skipped otherwise; a dry run         *)
(* classifies the file as a real run whose write succeeds does.            *)
(***************************************************************************)
C27_OneCounterUpdatePerFile ==
    /\ \A i \in Calls :
          ReadContent(i)
             => /\ hist[i].processed + hist[i].skipped = 1
                /\ hist[i].processed = 1 <=> ToCountProcessed(i)
    /\ processed_count = Cardinality(ReadAndCounted(TRUE))
    /\ skipped_count = Cardinality(ReadAndCounted(FALSE)) + Cardinality(Undecodable)

\* C27's case: a dry run that found a change to make and counted the file as
\* processed without touching it, after a call that could not read it
C27_Witness ==
    /\ args.dry_run
    /\ processed_count = 1
    /\ skipped_count = 0
    /\ Len(hist) = 2
    /\ hist[1].outcome = "read_error"
    /\ ReadContent(2)
    /\ ~ContentUnchanged(2)
    /\ hist[2].after = hist[2].before

\* call i read a file with nothing for clean mode to remove: line 0 is not
\* the canonical header and no line matches the path-comment pattern
NothingToRemove(i) ==
    /\ ReadContent(i)
    /\ ~HeaderAtLine0(i)
    /\ \A k \in 1..Len(LinesBefore(i)) : ~PathShaped(LinesBefore(i)[k])

\* call i left the file as it was, wrote nothing and counted a skip
LeftAsItWas(i) ==
    /\ hist[i].after = hist[i].before
    /\ ContentUnchanged(i)
    /\ ~hist[i].wrote
    /\ hist[i].write = None
    /\ CountedSkipped(i)

(***************************************************************************)
(* C28. Clean mode is a no-op when there is nothing to remove: in clean    *)
(* mode, for every content in which line 0 is not the canonical header and *)
(* no line matches the path-comment pattern, the empty file and files that *)
(* end in blank lines included, process_file leaves the file byte for byte *)
(* as it was, writes nothing and counts the file as skipped.               *)
(***************************************************************************)
C28_CleanNoOpWhenNothingToRemove ==
    args.clean => \A i \in Calls : NothingToRemove(i) => LeftAsItWas(i)

\* the same for the files that are not empty and whose last line is not blank
C28_FilesWithoutBlankEnd ==
    args.clean
        => \A i \in Calls :
              (/\ NothingToRemove(i)
               /\ LinesBefore(i) # <<>>
               /\ LinesBefore(i)[Len(LinesBefore(i))] # <<>>)
                 => LeftAsItWas(i)

(***************************************************************************)
(* Vocabulary of two calls on one file.                                    *)
(***************************************************************************)
\* the calls on the file both runs work on, in the order they returned
CallsOnRunPath == {i \in Calls : hist[i].path = RunPath}

\* the content of that file before any call: what the first call to return
\* had read
ContentAtStart == hist[CHOOSE i \in CallsOnRunPath : \A j \in CallsOnRunPath : i <= j].before

\* what one run alone leaves in the file, written out for each content
SingleRunContent(content) ==
    IF args.dry_run THEN content
    ELSE CASE content = <<"/", "/", " ", "t", ".", "j", "s", "\n", "c", "(", ")", ";", "\n">> -> content
           [] content = <<"c", "(", ")", ";", "\n">>
                  -> <<"/", "/", " ", "t", ".", "j", "s", "\n", "c", "(", ")", ";", "\n">>
           [] content = <<"/", "/", " ", "o", "/", "a", ".", "j", "s", "\n", "c", "(", ")", ";">>
                  -> IF args.strip
                     THEN <<"/", "/", " ", "t", ".", "j", "s", "\n", "c", "(", ")", ";">>
                     ELSE <<"/", "/", " ", "t", ".", "j", "s", "\n", "/", "/", " ", "o", "/", "a", ".", "j", "s", "\n", "c", "(", ")", ";">>

\* the call of the other run and a call of a worker on the same file have
\* both returned
BothReturned ==
    /\ \E i \in CallsOnRunPath : hist[i].worker = 0
    /\ \E i \in CallsOnRunPath : hist[i].worker \in Workers

(***************************************************************************)
(* C29. Concurrent processing of the same file converges: with clean off,  *)
(* when two threads execute process_file on the same file with the same    *)
(* configuration, each read and each write being one step, every           *)
(* interleaving ends with the content a single run produces: the two calls *)
(* add no second header and lose or duplicate no line.                     *)
(***************************************************************************)
C29_ConcurrentProcessingConverges ==
    (~args.clean /\ BothReturned) => disk[RunPath] = SingleRunContent(ContentAtStart)

\* C29's case: both threads read the file before either wrote it, both wrote
\* it, and it holds what one run alone writes
C29_Witness ==
    /\ ~args.clean
    /\ BothReturned
    /\ Cardinality({i \in CallsOnRunPath : hist[i].wrote}) = 2
    /\ disk[RunPath] # ContentAtStart

(***************************************************************************)
(* Vocabulary of the moved files.                                          *)
(***************************************************************************)
\* the style in use: the override, or the style of the extension
StyleInUse ==
    IF args.comment_style # None THEN args.comment_style[1]
    ELSE IF path = BaseDir \o <<"/", "n", "/", "t", ".", "c", "-", "x">> THEN "Hash" ELSE "Slash"

\* the header of the file at its new place, written out
HeaderAtNewPlace ==
    Comment(StyleInUse, SubSeq(path, Len(BaseDir) + 2, Len(path)))

\* line 0 of the file before the first call: the header written at the old
\* place
HeaderOfOldPlace == Lines(hist[1].before)[1]

(***************************************************************************)
(* C30. The tool recognizes its own headers: for every style and every     *)
(* relative path whose segments are made of word characters, hyphens, dots *)
(* and blanks and whose last segment has an extension, the canonical       *)
(* header matches the path-comment pattern of the style, so that a header  *)
(* written at an old place is stripped and replaced, not kept as a second  *)
(* line, when the file is processed at a new place with stripping on.      *)
(***************************************************************************)
C30_OwnHeadersRecognized ==
    hist # <<>>
        => /\ IsMatch(StyleInUse, HeaderOfOldPlace)
           /\ IsMatch(StyleInUse, HeaderAtNewPlace)
           /\ hist[1].assembled # None
           /\ hist[1].assembled[1].final_content_lines
                  = <<HeaderAtNewPlace, <<"c", "(", ")", ";">> >>

\* the same for the files whose old header names a directory or whose
\* extension is made of word characters only
C30_DirectoryOrWordExtension ==
    (hist # <<>> /\ HeaderOfOldPlace # Comment(StyleInUse, <<"t", ".", "c", "-", "x">>))
        => C30_OwnHeadersRecognized

====
